---- MODULE Spec2Model ----
(***************************************************************************)
(* REAR resource finder of the FLUIDOS model-based meta-orchestrator:      *)
(* REARResourceFinder.find_best_match and the solve / discover / reserve   *)
(* negotiation it drives through the custom-resource control plane.        *)
(*                                                                         *)
(* Every caller of find_best_match is a session s.  One action models one  *)
(* control-plane API call of the finder together with the Python code      *)
(* that follows it up to the next API call.  The control plane is the      *)
(* environment: it keeps the namespaced documents, refuses a create whose  *)
(* name is taken, answers a get of an absent name with an ApiException,    *)
(* and may fail any call with an ApiException.                             *)
(*                                                                         *)
(* The functions of common.py (unit normalisation, compatibility, intent   *)
(* keys) and the request builder are operators; SpecEval calls each of     *)
(* them once on every input of a bounded set.                              *)
(***************************************************************************)
EXTENDS Integers, Sequences, FiniteSets, TLC

VARIABLES call, solvers, reservations, eval

vars == <<call, solvers, reservations, eval>>

-----------------------------------------------------------------------------
(* Bounds of the model                                                     *)

\* Status fetches of one call that may report a phase the loop does not
\* recognise (the environment is otherwise free to report one for ever).
MaxWasted == 1

\* Longest quantity string the conversions are called with on their own.
MaxSpecLen == 3

\* Callers that may be inside find_best_match at the same time.
Sess == {1, 2}

-----------------------------------------------------------------------------
(* Python values                                                           *)

\* Python's None where a str is expected; strings are sequences of
\* one-character strings, so no string equals it.
None == <<"<None>">>

\* An identifier-like string that is only ever compared for equality.
Str(s) == <<s>>

Digits == {"0", "1", "2", "3", "4", "5", "6", "7", "8", "9"}

DigitVal ==
    ("0" :> 0) @@ ("1" :> 1) @@ ("2" :> 2) @@ ("3" :> 3) @@ ("4" :> 4) @@
    ("5" :> 5) @@ ("6" :> 6) @@ ("7" :> 7) @@ ("8" :> 8) @@ ("9" :> 9)

\* The exceptions the conversions raise.
ValueError == "ValueError"
IndexError == "IndexError"
TypeError == "TypeError"
StopIteration == "StopIteration"

\* What a call that yields an int gives: the int it returns, or the
\* exception it raises.
Ok(v) == [exc |-> "none", val |-> v]
Err(e) == [exc |-> e, val |-> 0]

\* r * k for the outcome r of a conversion
Times(r, k) == IF r.exc /= "none" THEN r ELSE Ok(r.val * k)

RECURSIVE DigitsToInt(_)
DigitsToInt(s) ==
    IF Len(s) = 0 THEN 0
    ELSE 10 * DigitsToInt(SubSeq(s, 1, Len(s) - 1)) + DigitVal[s[Len(s)]]

\* s.strip(): int() ignores the whitespace around the literal.
RECURSIVE PyStrip(_)
PyStrip(s) ==
    IF Len(s) = 0 THEN s
    ELSE IF s[1] = " " THEN PyStrip(Tail(s))
    ELSE IF s[Len(s)] = " " THEN PyStrip(SubSeq(s, 1, Len(s) - 1))
    ELSE s

\* The digit part of a decimal literal: digits, with single underscores
\* between them.
IsDigitPart(s) ==
    /\ Len(s) > 0
    /\ s[1] \in Digits
    /\ s[Len(s)] \in Digits
    /\ \A i \in 1..Len(s) : s[i] \in Digits \cup {"_"}
    /\ \A i \in 1..(Len(s) - 1) : ~(s[i] = "_" /\ s[i + 1] = "_")

\* int(s) for a str s: whitespace around the literal is ignored, a sign may
\* lead it, single underscores may group its digits; anything else raises
\* ValueError.  int(None) raises TypeError.
PyInt(s) ==
    IF s = None THEN Err(TypeError)
    ELSE LET t      == PyStrip(s)
             signed == Len(t) > 0 /\ t[1] \in {"+", "-"}
             body   == IF signed THEN Tail(t) ELSE t
             value  == DigitsToInt(SelectSeq(body, LAMBDA ch : ch \in Digits))
         IN  IF ~IsDigitPart(body) THEN Err(ValueError)
             ELSE IF signed /\ t[1] = "-" THEN Ok(0 - value)
             ELSE Ok(value)

\* spec[:-k] and spec[-k:]; a slice never raises, it is cut at the ends of
\* the string.
DropLast(s, k) == IF Len(s) <= k THEN <<>> ELSE SubSeq(s, 1, Len(s) - k)
TakeLast(s, k) == IF Len(s) <= k THEN s ELSE SubSeq(s, Len(s) - k + 1, Len(s))

-----------------------------------------------------------------------------
(* common.py: unit normalisation and compatibility                         *)

\* spec[-1] of the empty string raises IndexError.
_cpu_to_int(spec) ==
    IF Len(spec) = 0 THEN Err(IndexError)
    ELSE IF spec[Len(spec)] = "n" THEN PyInt(DropLast(spec, 1))
    ELSE IF spec[Len(spec)] = "m" THEN Times(PyInt(DropLast(spec, 1)), 1000)
    ELSE Times(PyInt(spec), 1000 * 1000)

\* The binary multipliers replaced by decimal ones.
_memory_to_int_Decimal(spec) ==
    LET unit      == TakeLast(spec, 2)
        magnitude == PyInt(DropLast(spec, 2))
    IN  IF magnitude.exc /= "none" THEN magnitude
        ELSE IF unit = <<"K", "i">> THEN magnitude
        ELSE IF unit = <<"M", "i">> THEN Times(magnitude, 1000)
        ELSE IF unit = <<"G", "i">> THEN Times(magnitude, 1000 * 1000)
        ELSE Err(ValueError)

_memory_to_int(spec) ==
    LET unit      == TakeLast(spec, 2)
        magnitude == PyInt(DropLast(spec, 2))
    IN  IF magnitude.exc /= "none" THEN magnitude
        ELSE IF unit = <<"K", "i">> THEN magnitude
        ELSE IF unit = <<"M", "i">> THEN Times(magnitude, 1024)
        ELSE IF unit = <<"G", "i">> THEN Times(magnitude, 1024 * 1024)
        ELSE Err(ValueError)

\* Python's True / False as values; a call that raises yields the name of
\* its exception instead.
PyTrue == "True"
PyFalse == "False"
PyBool(b) == IF b THEN PyTrue ELSE PyFalse

_cpu_compatible(cpu_a_spec, cpu_b_spec) ==
    IF cpu_a_spec = None THEN PyFalse
    ELSE IF cpu_b_spec = None THEN PyFalse
    ELSE LET cpu_a == _cpu_to_int(cpu_a_spec)
             cpu_b == _cpu_to_int(cpu_b_spec)
         IN  IF cpu_a.exc /= "none" THEN cpu_a.exc
             ELSE IF cpu_b.exc /= "none" THEN cpu_b.exc
             ELSE PyBool(cpu_b.val >= cpu_a.val)

_memory_compatible(memory_a_spec, memory_b_spec) ==
    IF memory_a_spec = None THEN PyFalse
    ELSE IF memory_b_spec = None THEN PyFalse
    ELSE LET memory_a == _memory_to_int(memory_a_spec)
             memory_b == _memory_to_int(memory_b_spec)
         IN  IF memory_a.exc /= "none" THEN memory_a.exc
             ELSE IF memory_b.exc /= "none" THEN memory_b.exc
             ELSE PyBool(memory_b.val >= memory_a.val)

\* The architecture is not compared.
can_run_on_AnyArchitecture(self, flavor) ==
    LET c == _cpu_compatible(self.cpu, flavor.cpu)
        m == _memory_compatible(self.memory, flavor.memory)
    IN  IF c /= PyTrue THEN c
        ELSE IF m /= PyTrue THEN m
        ELSE IF self.gpu = None THEN PyTrue
        ELSE IF PyInt(self.gpu).exc /= "none" THEN PyInt(self.gpu).exc
        ELSE IF PyInt(flavor.gpu).exc /= "none" THEN PyInt(flavor.gpu).exc
        ELSE PyBool(~(PyInt(self.gpu).val > PyInt(flavor.gpu).val))

\* Resource.can_run_on: the checks run in the order of the code, so a
\* conversion raises only when the checks before it passed.
can_run_on(self, flavor) ==
    LET c == _cpu_compatible(self.cpu, flavor.cpu)
        m == _memory_compatible(self.memory, flavor.memory)
    IN  IF c /= PyTrue THEN c
        ELSE IF m /= PyTrue THEN m
        ELSE IF self.architecture /= None
                /\ self.architecture /= flavor.architecture THEN PyFalse
        ELSE IF self.gpu = None THEN PyTrue
        ELSE IF PyInt(self.gpu).exc /= "none" THEN PyInt(self.gpu).exc
        ELSE IF PyInt(flavor.gpu).exc /= "none" THEN PyInt(flavor.gpu).exc
        ELSE PyBool(~(PyInt(self.gpu).val > PyInt(flavor.gpu).val))

\* str.startswith, str.split("-"), "-".join, parts[2:] and str.casefold on
\* strings as sequences of characters.
StartsWith(s, prefix) ==
    Len(s) >= Len(prefix) /\ SubSeq(s, 1, Len(prefix)) = prefix

RECURSIVE PySplit(_)
PySplit(s) ==
    IF \A i \in 1..Len(s) : s[i] /= "-" THEN <<s>>
    ELSE LET i == CHOOSE i \in 1..Len(s) :
                      s[i] = "-" /\ \A j \in 1..(i - 1) : s[j] /= "-"
         IN  <<SubSeq(s, 1, i - 1)>> \o PySplit(SubSeq(s, i + 1, Len(s)))

RECURSIVE PyJoin(_)
PyJoin(parts) ==
    IF Len(parts) = 0 THEN <<>>
    ELSE IF Len(parts) = 1 THEN parts[1]
    ELSE parts[1] \o <<"-">> \o PyJoin(Tail(parts))

From2(parts) ==
    IF Len(parts) <= 2 THEN <<>> ELSE SubSeq(parts, 3, Len(parts))

Lower ==
    ("A" :> "a") @@ ("B" :> "b") @@ ("C" :> "c") @@ ("D" :> "d") @@
    ("E" :> "e") @@ ("F" :> "f") @@ ("G" :> "g") @@ ("H" :> "h") @@
    ("I" :> "i") @@ ("J" :> "j") @@ ("K" :> "k") @@ ("L" :> "l") @@
    ("M" :> "m") @@ ("N" :> "n") @@ ("O" :> "o") @@ ("P" :> "p") @@
    ("Q" :> "q") @@ ("R" :> "r") @@ ("S" :> "s") @@ ("T" :> "t") @@
    ("U" :> "u") @@ ("V" :> "v") @@ ("W" :> "w") @@ ("X" :> "x") @@
    ("Y" :> "y") @@ ("Z" :> "z")

casefold(s) ==
    [i \in 1..Len(s) |-> IF s[i] \in DOMAIN Lower THEN Lower[s[i]] ELSE s[i]]

\* The members of KnownIntent, by name, in the order of the enumeration.
KnownIntent ==
    << <<"c", "p", "u">>,
       <<"m", "e", "m", "o", "r", "y">>,
       <<"l", "a", "t", "e", "n", "c", "y">>,
       <<"l", "o", "c", "a", "t", "i", "o", "n">>,
       <<"t", "h", "r", "o", "u", "g", "h", "p", "u", "t">>,
       <<"c", "o", "m", "p", "l", "i", "a", "n", "c", "e">>,
       <<"e", "n", "e", "r", "g", "y">>,
       <<"b", "a", "t", "t", "e", "r", "y">>,
       <<"s", "e", "r", "v", "i", "c", "e">> >>

\* "fluidos-intent-"
IntentKeyPrefix ==
    <<"f", "l", "u", "i", "d", "o", "s", "-",
      "i", "n", "t", "e", "n", "t", "-">>

\* KnownIntent.to_intent_key of the member named name
to_intent_key(name) == IntentKeyPrefix \o name

is_supported(intent_name) ==
    LET name == IF StartsWith(intent_name, IntentKeyPrefix)
                THEN PyJoin(From2(PySplit(intent_name)))
                ELSE intent_name
    IN  \E i \in 1..Len(KnownIntent) : KnownIntent[i] = name

\* What get_intent gives: the member it returns, or the exception it
\* raises.
Member(name) == [exc |-> "none", member |-> name]
Raises(e) == [exc |-> e, member |-> <<>>]

\* next() over the members whose name is name: the first one, or
\* StopIteration when there is none.
get_intent(intent_name) ==
    IF ~is_supported(intent_name) THEN Raises(ValueError)
    ELSE LET name == casefold(PyJoin(From2(PySplit(intent_name))))
         IN  IF \E i \in 1..Len(KnownIntent) : KnownIntent[i] = name
             THEN Member(KnownIntent[
                      CHOOSE i \in 1..Len(KnownIntent) :
                          /\ KnownIntent[i] = name
                          /\ \A j \in 1..(i - 1) : KnownIntent[j] /= name])
             ELSE Raises(StopIteration)

-----------------------------------------------------------------------------
(* Requests and catalog contents the callers and the control plane use     *)

\* Resource(id, cpu, memory, architecture, gpu); the storage and region
\* fields are never read by the finder.
Resource(id, cpu, memory, architecture, gpu) ==
    [kind |-> "Resource", id |-> id, cpu |-> cpu, memory |-> memory,
     architecture |-> architecture, gpu |-> gpu]

Intent(name, value) == [kind |-> "Intent", name |-> name, value |-> value]

ReqIds == {Str("r1"), Str("r2")}

Resources ==
    { Resource(Str("r1"), <<"5", "0", "0", "m">>, <<"5", "1", "2", "M", "i">>,
               None, None),
      Resource(Str("r2"), <<"4">>, <<"1", "G", "i">>, Str("amd64"), None) }

\* A Resource whose cpu quantity int() rejects.
MalformedResource ==
    Resource(Str("r1"), <<"1", "x">>, <<"5", "1", "2", "M", "i">>, None, None)

Requests ==
    Resources
    \cup {Intent("latency", Str("10ms")), [kind |-> "str"], MalformedResource}

\* Flavor as find_local reads it: id, type and the characteristics that
\* can_run_on compares.
Flavor(id, type, cpu, memory, architecture, gpu) ==
    [id |-> id, type |-> type, cpu |-> cpu, memory |-> memory,
     architecture |-> architecture, gpu |-> gpu]

K8SLICE == "K8SLICE"

Catalog ==
    << Flavor(Str("f1"), K8SLICE, <<"2">>, <<"1", "G", "i">>,
              Str("amd64"), <<"0">>),
       Flavor(Str("f2"), "VM", <<"1", "6">>, <<"8", "G", "i">>,
              Str("amd64"), <<"1">>),
       Flavor(Str("f3"), K8SLICE, <<"8">>, <<"4", "G", "i">>,
              Str("amd64"), <<"1">>) >>

\* A listing whose second flavour has a memory quantity without a known
\* unit.
MalformedCatalog ==
    << Catalog[1],
       Flavor(Str("f4"), K8SLICE, <<"8">>, <<"4", "G", "x">>,
              Str("amd64"), <<"0">>) >>

\* What list_namespaced_custom_object(plural="flavours") may answer.
ListResponses ==
    { [status |-> "ApiException"], [status |-> "None"],
      [status |-> "ok", items |-> Catalog],
      [status |-> "ok", items |-> MalformedCatalog] }

\* A peering candidate: metadata.name and spec.flavour.spec.owner.
Candidate(name, owner) == [name |-> name, owner |-> owner]

CandA == Candidate(Str("c1"), Str("provider-a"))
CandB == Candidate(Str("c2"), Str("provider-b"))
Candidates == {CandA, CandB}

\* configuration.identity of the local node
Identity == Str("local-node")

\* uuid.uuid4() values
Uuids == {Str("u1"), Str("u2")}

-----------------------------------------------------------------------------
(* Documents of the control plane                                          *)

NoDoc == [kind |-> "None"]

NoStatus == "<no status>"

\* solverPhase.phase values the poll loop tests for, and one it does not.
KnownPhases == {"Pending", "Running", "Solved", "Failed", "Timed Out"}
OtherPhases == {"Idle"}
Phases == KnownPhases \cup OtherPhases

\* f"{intent_id}-solver"
SolverName(intent_id) == intent_id \o <<"-solver">>

\* f"discovery-{solver_name}"
DiscoveryName(solver_name) == <<"discovery-">> \o solver_name

\* f'{candidate["metadata"]["name"]}-reservation'
ReservationName(candidate) == candidate.name \o <<"-reservation">>

SolverNames == {SolverName(i) : i \in ReqIds \cup Uuids}
ReservationNames == {ReservationName(c) : c \in Candidates}

\* status.peeringCandidateList.items of a Discovery; hasItems is FALSE when
\* the record has no candidate list.
DiscoveryDoc(hasItems, items) ==
    [kind |-> "Discovery", hasItems |-> hasItems, items |-> items]

DiscoveryDocs ==
    { DiscoveryDoc(FALSE, <<>>), DiscoveryDoc(TRUE, <<>>),
      DiscoveryDoc(TRUE, <<CandA>>), DiscoveryDoc(TRUE, <<CandA, CandB>>) }

\* The body left without its owner reference.
adopt_Forgotten(body, owner) == body

\* kopf.adopt(body): the body gains an owner reference to the caller object.
adopt(body, owner) == [body EXCEPT !.owner = owner]

-----------------------------------------------------------------------------
(* finder.py: the pure parts of REARResourceFinder                         *)

\* REARResourceFinder.SOLVER_TIMEOUT, the tick budget of the poll loop
SOLVER_TIMEOUT == 25

\* x or default
PyOr(x, default) == IF x = None \/ x = <<>> THEN default ELSE x

\* minGpu written whether or not the request constrains the GPU.
_build_range_selector_AlwaysGpu(resource) ==
    [minCpu |-> PyOr(resource.cpu, <<"0", "n">>),
     minMemory |-> PyOr(resource.memory, <<"1", "K", "i">>),
     minGpu |-> PyOr(resource.gpu, <<"0">>)]

_build_range_selector(resource) ==
    IF resource.gpu /= None
    THEN [minCpu |-> PyOr(resource.cpu, <<"0", "n">>),
          minMemory |-> PyOr(resource.memory, <<"1", "K", "i">>),
          minGpu |-> resource.gpu]
    ELSE [minCpu |-> PyOr(resource.cpu, <<"0", "n">>),
          minMemory |-> PyOr(resource.memory, <<"1", "K", "i">>)]

_build_flavour_selector(resource) ==
    [type |-> "k8s-fluidos",
     architecture |-> IF resource.architecture /= None
                      THEN resource.architecture ELSE Str("amd64"),
     rangeSelector |-> _build_range_selector(resource)]

\* The solver_request of _resource_to_solver_request; uuid is the value
\* uuid.uuid4() yields when intent_id is None.
_resource_to_solver_request(resource, intent_id, uuid) ==
    LET id == IF intent_id = None THEN uuid ELSE intent_id
    IN  [kind |-> "Solver", name |-> SolverName(id), owner |-> None,
         intentID |-> id, findCandidate |-> TRUE, reserveAndBuy |-> FALSE,
         enstablishPeering |-> FALSE,
         selector |-> _build_flavour_selector(resource)]

\* The call without the request identifier: the name comes from uuid4().
FindRemoteIntentId_NoId(resource) == None

\* The intent_id argument _find_remote passes to _resource_to_solver_request.
FindRemoteIntentId(resource) == resource.id

\* An Intent rejected like any other unsupported type.
RequestDispatch_IntentRaises(request) ==
    IF request.kind = "Resource" THEN "resource" ELSE "ValueError"

\* The branch find_best_match takes on the type of the request.
RequestDispatch(request) ==
    IF request.kind = "Resource" THEN "resource"
    ELSE IF request.kind = "Intent" THEN "intent"
    ELSE "ValueError"

\* The listing without its except clause.
_get_locally_available_flavors_Raising(resp) ==
    IF resp.status = "ApiException" THEN [raised |-> TRUE, flavors |-> <<>>]
    ELSE IF resp.status = "None" THEN [raised |-> FALSE, flavors |-> <<>>]
    ELSE [raised |-> FALSE, flavors |-> resp.items]

\* _get_locally_available_flavors on the answer of the flavours listing.
_get_locally_available_flavors(resp) ==
    IF resp.status = "ApiException" THEN [raised |-> FALSE, flavors |-> <<>>]
    ELSE IF resp.status = "None" THEN [raised |-> FALSE, flavors |-> <<>>]
    ELSE [raised |-> FALSE, flavors |-> resp.items]

LocalResourceProvider(id, flavor) ==
    [kind |-> "Local", id |-> id, flavor |-> flavor]

\* The loop of _find_local raises when can_run_on raises for a flavour of
\* type K8SLICE.
FindLocalRaises(resource, local_flavours) ==
    \E i \in 1..Len(local_flavours) :
        /\ local_flavours[i].type = K8SLICE
        /\ can_run_on(resource, local_flavours[i]) \notin {PyTrue, PyFalse}

\* The exception of the first flavour for which can_run_on raises.
FindLocalException(resource, local_flavours) ==
    LET i == CHOOSE i \in 1..Len(local_flavours) :
                 /\ local_flavours[i].type = K8SLICE
                 /\ can_run_on(resource, local_flavours[i])
                        \notin {PyTrue, PyFalse}
                 /\ \A j \in 1..(i - 1) :
                        local_flavours[j].type = K8SLICE =>
                            can_run_on(resource, local_flavours[j])
                                \in {PyTrue, PyFalse}
    IN  can_run_on(resource, local_flavours[i])

\* The loop without its test of the flavour type.
_find_local_AnyType(resource, local_flavours) ==
    LET fitting == SelectSeq(local_flavours,
                       LAMBDA f : can_run_on(resource, f) = PyTrue)
    IN  [i \in 1..Len(fitting) |->
           LocalResourceProvider(fitting[i].id, fitting[i])]

RECURSIVE _find_local(_, _)
_find_local(resource, local_flavours) ==
    IF Len(local_flavours) = 0 THEN <<>>
    ELSE LET flavor == Head(local_flavours)
             rest   == _find_local(resource, Tail(local_flavours))
         IN  IF flavor.type /= K8SLICE THEN rest
             ELSE IF can_run_on(resource, flavor) = PyTrue
             THEN <<LocalResourceProvider(flavor.id, flavor)>> \o rest
             ELSE rest

\* The test of _initiate_search that decides to create the Solver.
NeedsCreate(response) == response = NoDoc \/ response.kind /= "Solver"

\* The phase tests of the poll loop.
\* The phase Failed taken for Solved as well.
IsSolved_OrFailed(phase) == phase = "Solved" \/ phase = "Failed"
IsSolved(phase) == phase = "Solved"
\* The timeout phase tested by its enumeration name, not its wire value.
IsFailurePhase_EnumName(phase) == phase = "Failed" \/ phase = "TimedOut"
IsFailurePhase(phase) == phase = "Failed" \/ phase = "Timed Out"
\* Pending not taken as a phase that consumes a tick.
IsProcessing_RunningOnly(phase) == phase = "Running"
IsProcessing(phase) == phase = "Running" \/ phase = "Pending"

\* _retrieve_peering_candidates on the fetched Discovery (NoDoc when the
\* fetch raised): the candidate list, or None.
NoCandidates == [isNone |-> TRUE, items |-> <<>>]
_retrieve_peering_candidates(discovery) ==
    IF discovery = NoDoc THEN NoCandidates
    ELSE IF ~discovery.hasItems THEN NoCandidates
    ELSE [isNone |-> FALSE, items |-> discovery.items]

\* The Reservation bought at once, with the buyer as its own seller.
_create_reservation_Purchase(solver_name, candidate) ==
    [kind |-> "Reservation", name |-> ReservationName(candidate),
     owner |-> None, solverID |-> solver_name, buyer |-> Identity,
     seller |-> Identity, reserve |-> TRUE, purchase |-> TRUE,
     peeringCandidate |-> candidate.name]

_create_reservation(solver_name, candidate) ==
    [kind |-> "Reservation", name |-> ReservationName(candidate),
     owner |-> None, solverID |-> solver_name, buyer |-> Identity,
     seller |-> candidate.owner, reserve |-> TRUE, purchase |-> FALSE,
     peeringCandidate |-> candidate.name]

\* The value _reserve_peering_candidate returns when the create raised.
NoProvider == [kind |-> "None"]

\* The handle with the solver name and the candidate name exchanged.
RemoteResourceProvider_Swapped(solver_name, candidate, response) ==
    [kind |-> "Remote", id |-> candidate.name,
     peering_candidate |-> solver_name, reservation |-> response.name]

\* The value _reserve_peering_candidate returns when the create succeeded.
RemoteResourceProvider(solver_name, candidate, response) ==
    [kind |-> "Remote", id |-> solver_name,
     peering_candidate |-> candidate.name, reservation |-> response.name]

\* A reservation that failed empties the whole result.
_reserve_all_AllOrNothing(results) ==
    IF \E i \in 1..Len(results) : results[i] = NoProvider THEN <<>>
    ELSE results

\* The filter of _reserve_all over the results of the reservation attempts.
_reserve_all(results) == SelectSeq(results, LAMBDA r : r /= NoProvider)

\* The remote matches first.
FindBestMatchResult_RemoteFirst(local, remote) == remote \o local

\* return local + remote
FindBestMatchResult(local, remote) == local \o remote

-----------------------------------------------------------------------------
(* State                                                                   *)

\* The frame of one find_best_match call.  pc is the API call the caller
\* is about to make.  listed (the flavours the listing gave) and the
\* fields after exc record what the call has done and seen (seen is the
\* Discovery the fetch answered with, accepted the candidates whose
\* Reservation the control plane created); the code does not read them.
IdleCall ==
    [pc |-> "idle", request |-> [kind |-> "none"], listed |-> <<>>,
     local |-> <<>>,
     body |-> NoDoc, solver_name |-> None, counter |-> 0,
     seen |-> NoDoc, peering_candidates |-> <<>>, results |-> <<>>,
     matching_resources |-> <<>>, ret |-> <<>>, exc |-> "none",
     ops |-> {}, faults |-> {}, wasted |-> 0, observed |-> "none",
     outcome |-> "none", presentAtCall |-> FALSE, created |-> FALSE,
     accepted |-> {}, overlapped |-> FALSE]

InCall(c) == c.pc \notin {"idle", "returned", "raised"}

\* No function of common.py is being evaluated on its own.
NoEval == [fn |-> "none"]

Init ==
    /\ call = [s \in Sess |-> IdleCall]
    /\ solvers = [n \in SolverNames |-> NoDoc]
    /\ reservations = [n \in ReservationNames |-> NoDoc]
    /\ eval = NoEval

\* The frame c after _find_remote returned remote in the given outcome and
\* find_best_match returned local + remote.  The counter of the poll loop
\* is not read after the loop; it is dropped with the loop.
Returned(c, remote, outcome) ==
    [c EXCEPT !.pc = "returned", !.matching_resources = remote,
              !.counter = 0, !.wasted = 0,
              !.ret = FindBestMatchResult(c.local, remote),
              !.outcome = outcome]

Raised(c, exc) == [c EXCEPT !.pc = "raised", !.exc = exc]

\* An API call of kind op, failed by the infrastructure when fault holds.
Logged(c, op, fault) ==
    [c EXCEPT !.ops = @ \cup {op},
              !.faults = IF fault THEN @ \cup {op} ELSE @]

-----------------------------------------------------------------------------
(* find_best_match, one action per control-plane call                      *)

\* A caller enters find_best_match(request, namespace): lines 57-68.
Call(s, request) ==
    /\ call[s].pc = "idle"
    /\ LET others == \E o \in Sess \ {s} : InCall(call[o])
           c0 == [IdleCall EXCEPT !.request = request,
                                  !.overlapped = others]
           c1 == IF RequestDispatch(request) = "resource"
                 THEN [c0 EXCEPT
                         !.pc = "find_local",
                         !.presentAtCall =
                             solvers[SolverName(request.id)] /= NoDoc]
                 ELSE IF RequestDispatch(request) = "intent"
                 THEN [c0 EXCEPT !.pc = "returned", !.ret = <<>>]
                 ELSE Raised(c0, "ValueError")
       IN  call' = [o \in Sess |->
                      IF o = s THEN c1
                      ELSE IF InCall(call[o]) /\ InCall(c1)
                      THEN [call[o] EXCEPT !.overlapped = TRUE]
                      ELSE call[o]]
    /\ UNCHANGED <<solvers, reservations, eval>>

\* The Solver submitted before the listed flavours are matched.
FindLocal_AfterSubmit(s, F) ==
    /\ call[s].pc = "find_local"
    /\ \E resp \in ListResponses, uuid \in Uuids :
         LET c == Logged(call[s], "list_flavours",
                         resp.status = "ApiException")
             listed == _get_locally_available_flavors(resp)
             body == adopt(_resource_to_solver_request(
                               c.request, FindRemoteIntentId(c.request), uuid),
                           c.request.id)
         IN  IF FindLocalRaises(c.request, listed.flavors)
             THEN /\ solvers' =
                        IF solvers[body.name] = NoDoc
                        THEN [solvers EXCEPT ![body.name] =
                                body @@ [status |-> NoStatus]]
                        ELSE solvers
                  /\ call' = [call EXCEPT ![s] =
                        Raised([c EXCEPT !.created =
                                   solvers[body.name] = NoDoc],
                               FindLocalException(c.request, listed.flavors))]
             ELSE /\ solvers' = solvers
                  /\ call' = [call EXCEPT ![s] =
                        [c EXCEPT
                           !.listed = listed.flavors,
                           !.local = _find_local(c.request, listed.flavors),
                           !.pc = "initiate_get"]]
    /\ UNCHANGED <<reservations, eval>>

\* _find_local: the flavours listing and the compatibility loop.
FindLocal(s, F) ==
    /\ call[s].pc = "find_local"
    /\ \E resp \in ListResponses :
         LET c == Logged(call[s], "list_flavours",
                         resp.status = "ApiException")
             listed == _get_locally_available_flavors(resp)
         IN  call' = [call EXCEPT ![s] =
                 IF listed.raised THEN Raised(c, "ApiException")
                 ELSE IF FindLocalRaises(c.request, listed.flavors)
                 THEN Raised(c, FindLocalException(c.request,
                                                   listed.flavors))
                 ELSE [c EXCEPT
                         !.listed = listed.flavors,
                         !.local = _find_local(c.request, listed.flavors),
                         !.pc = "initiate_get"]]
    /\ UNCHANGED <<solvers, reservations, eval>>

\* uuid.uuid4() never yields a value that is in use.
FreshUuids == {u \in Uuids : solvers[SolverName(u)] = NoDoc}

\* _find_remote up to the get of _initiate_search: lines 148-152, 94-110.
InitiateGet(s, F) ==
    /\ call[s].pc = "initiate_get"
    /\ \E fault \in F, uuid \in FreshUuids :
         LET c == Logged(call[s], "get_solver", fault)
             body == adopt(_resource_to_solver_request(
                               c.request, FindRemoteIntentId(c.request), uuid),
                           c.request.id)
             response == IF fault THEN NoDoc ELSE solvers[body.name]
         IN  call' = [call EXCEPT ![s] =
                 IF NeedsCreate(response)
                 THEN [c EXCEPT !.body = body, !.pc = "initiate_create"]
                 ELSE [c EXCEPT !.solver_name = response.name,
                                !.pc = "poll"]]
    /\ UNCHANGED <<solvers, reservations, eval>>

\* The create of _initiate_search: lines 111-122.  It is not inside a try.
InitiateCreate(s, F) ==
    /\ call[s].pc = "initiate_create"
    /\ \E fault \in F :
         LET c == Logged(call[s], "create_solver", fault)
             name == c.body.name
         IN  IF fault \/ solvers[name] /= NoDoc
             THEN /\ call' = [call EXCEPT ![s] = Raised(c, "ApiException")]
                  /\ UNCHANGED solvers
             ELSE /\ solvers' = [solvers EXCEPT ![name] =
                                   c.body @@ [status |-> NoStatus]]
                  /\ call' = [call EXCEPT ![s] =
                        [c EXCEPT !.solver_name = name, !.created = TRUE,
                                  !.body = NoDoc, !.pc = "poll"]]
    /\ UNCHANGED <<reservations, eval>>

\* A status fetch that failed, or answered no status, counted as a tick
\* and tried again.
Poll_Retrying(s, F) ==
    /\ call[s].pc = "poll"
    /\ call[s].counter < SOLVER_TIMEOUT
    /\ \E fault \in F :
         LET c == Logged(call[s], "get_status", fault)
             remote_flavour_status ==
                 IF fault THEN NoDoc ELSE solvers[c.solver_name]
             phase == remote_flavour_status.status
         IN  IF remote_flavour_status = NoDoc
             THEN call' = [call EXCEPT ![s] = [c EXCEPT !.counter = @ + 1]]
             ELSE IF phase = NoStatus
             THEN call' = [call EXCEPT ![s] = [c EXCEPT !.counter = @ + 1]]
             ELSE IF IsSolved(phase)
             THEN call' = [call EXCEPT ![s] =
                     [c EXCEPT !.observed = phase, !.counter = 0,
                               !.wasted = 0, !.pc = "discover"]]
             ELSE IF IsFailurePhase(phase)
             THEN call' = [call EXCEPT ![s] =
                     Returned([c EXCEPT !.observed = phase],
                              <<>>, "ABORTED")]
             ELSE IF IsProcessing(phase)
             THEN call' = [call EXCEPT ![s] = [c EXCEPT !.counter = @ + 1]]
             ELSE /\ c.wasted < MaxWasted
                  /\ call' = [call EXCEPT ![s] = [c EXCEPT !.wasted = @ + 1]]
    /\ UNCHANGED <<solvers, reservations, eval>>

\* One iteration of the poll loop: lines 156-175.
Poll(s, F) ==
    /\ call[s].pc = "poll"
    /\ call[s].counter < SOLVER_TIMEOUT
    /\ \E fault \in F :
         LET c == Logged(call[s], "get_status", fault)
             remote_flavour_status ==
                 IF fault THEN NoDoc ELSE solvers[c.solver_name]
             phase == remote_flavour_status.status
         IN  IF remote_flavour_status = NoDoc
             THEN call' = [call EXCEPT ![s] =
                     Returned([c EXCEPT !.observed = "None"],
                              <<>>, "ABORTED")]
             ELSE IF phase = NoStatus
             THEN call' = [call EXCEPT ![s] =
                     Returned([c EXCEPT !.observed = NoStatus],
                              <<>>, "ABORTED")]
             ELSE IF IsSolved(phase)
             THEN call' = [call EXCEPT ![s] =
                     [c EXCEPT !.observed = phase, !.counter = 0,
                               !.wasted = 0, !.pc = "discover"]]
             ELSE IF IsFailurePhase(phase)
             THEN call' = [call EXCEPT ![s] =
                     Returned([c EXCEPT !.observed = phase],
                              <<>>, "ABORTED")]
             ELSE IF IsProcessing(phase)
             THEN call' = [call EXCEPT ![s] = [c EXCEPT !.counter = @ + 1]]
             ELSE /\ c.wasted < MaxWasted
                  /\ call' = [call EXCEPT ![s] = [c EXCEPT !.wasted = @ + 1]]
    /\ UNCHANGED <<solvers, reservations, eval>>

\* The else branch of the poll loop: lines 176-178.
PollTimeout(s) ==
    /\ call[s].pc = "poll"
    /\ ~(call[s].counter < SOLVER_TIMEOUT)
    /\ call' = [call EXCEPT ![s] = Returned(call[s], <<>>, "ABORTED")]
    /\ UNCHANGED <<solvers, reservations, eval>>

\* The fetch of the Discovery outside any try: its failure is raised.
Discover_Unguarded(s, F) ==
    /\ call[s].pc = "discover"
    /\ \E fault \in F, stored \in DiscoveryDocs \cup {NoDoc} :
         LET c == Logged(call[s], "get_discovery", fault)
             discovery == IF fault THEN NoDoc ELSE stored
             peering_candidates == _retrieve_peering_candidates(discovery)
             c1 == [c EXCEPT !.seen = discovery]
         IN  call' = [call EXCEPT ![s] =
                 IF fault THEN Raised(c1, "ApiException")
                 ELSE IF peering_candidates.isNone
                 THEN Returned(c1, <<>>, "ABORTED")
                 ELSE IF Len(peering_candidates.items) = 0
                 THEN Returned(c1, <<>>, "ABORTED")
                 ELSE [c1 EXCEPT
                         !.peering_candidates = peering_candidates.items,
                         !.pc = "reserve"]]
    /\ UNCHANGED <<solvers, reservations, eval>>

\* _retrieve_peering_candidates and the tests after it: lines 181-190.
\* The Discovery named DiscoveryName(solver_name) belongs to the discovery
\* controller, which may have written any of DiscoveryDocs, or nothing yet.
Discover(s, F) ==
    /\ call[s].pc = "discover"
    /\ \E fault \in F, stored \in DiscoveryDocs \cup {NoDoc} :
         LET c == Logged(call[s], "get_discovery", fault)
             discovery == IF fault THEN NoDoc ELSE stored
             peering_candidates == _retrieve_peering_candidates(discovery)
             c1 == [c EXCEPT !.seen = discovery]
         IN  call' = [call EXCEPT ![s] =
                 IF peering_candidates.isNone
                 THEN Returned(c1, <<>>, "ABORTED")
                 ELSE IF Len(peering_candidates.items) = 0
                 THEN Returned(c1, <<>>, "ABORTED")
                 ELSE [c1 EXCEPT
                         !.peering_candidates = peering_candidates.items,
                         !.pc = "reserve"]]
    /\ UNCHANGED <<solvers, reservations, eval>>

\* The Reservation written over the one that holds its name.
Reserve_Replacing(s, F) ==
    /\ call[s].pc = "reserve"
    /\ \E fault \in F :
         LET c == Logged(call[s], "create_reservation", fault)
             i == Len(c.results) + 1
             candidate == c.peering_candidates[i]
             body == adopt(_create_reservation(c.solver_name, candidate),
                           c.request.id)
             ok == ~fault
             result == IF ok
                       THEN RemoteResourceProvider(c.solver_name, candidate,
                                                   body)
                       ELSE NoProvider
             c1 == [c EXCEPT !.results = Append(@, result),
                             !.accepted = IF ok THEN @ \cup {i} ELSE @]
         IN  /\ reservations' =
                   IF ok THEN [reservations EXCEPT ![body.name] = body]
                   ELSE reservations
             /\ call' = [call EXCEPT ![s] =
                   IF i = Len(c.peering_candidates)
                   THEN Returned(c1, _reserve_all(c1.results), "DONE")
                   ELSE c1]
    /\ UNCHANGED <<solvers, eval>>

\* _reserve_peering_candidate for the next candidate of _reserve_all, and,
\* after the last one, the filter of _reserve_all and the return:
\* lines 192-196, 218-278.
Reserve(s, F) ==
    /\ call[s].pc = "reserve"
    /\ \E fault \in F :
         LET c == Logged(call[s], "create_reservation", fault)
             i == Len(c.results) + 1
             candidate == c.peering_candidates[i]
             body == adopt(_create_reservation(c.solver_name, candidate),
                           c.request.id)
             ok == ~fault /\ reservations[body.name] = NoDoc
             result == IF ok
                       THEN RemoteResourceProvider(c.solver_name, candidate,
                                                   body)
                       ELSE NoProvider
             c1 == [c EXCEPT !.results = Append(@, result),
                             !.accepted = IF ok THEN @ \cup {i} ELSE @]
         IN  /\ reservations' =
                   IF ok THEN [reservations EXCEPT ![body.name] = body]
                   ELSE reservations
             /\ call' = [call EXCEPT ![s] =
                   IF i = Len(c.peering_candidates)
                   THEN Returned(c1, _reserve_all(c1.results), "DONE")
                   ELSE c1]
    /\ UNCHANGED <<solvers, eval>>

\* The caller takes the result, or the exception, and may call again.
Return(s) ==
    /\ call[s].pc \in {"returned", "raised"}
    /\ call' = [call EXCEPT ![s] = IdleCall]
    /\ UNCHANGED <<solvers, reservations, eval>>

-----------------------------------------------------------------------------
(* The control plane's own controllers                                     *)

\* The solver controller writes status.solverPhase.phase.
EnvSolverPhase(n, phase) ==
    /\ solvers[n] /= NoDoc
    /\ solvers[n].status /= phase
    /\ solvers' = [solvers EXCEPT ![n].status = phase]
    /\ UNCHANGED <<call, reservations, eval>>

\* The steps of caller s, its requests drawn from Reqs and the failures of
\* the infrastructure from F.
Step(s, Reqs, F) ==
    \/ \E request \in Reqs : Call(s, request)
    \/ FindLocal(s, F)
    \/ InitiateGet(s, F)
    \/ InitiateCreate(s, F)
    \/ Poll(s, F)
    \/ PollTimeout(s)
    \/ Discover(s, F)
    \/ Reserve(s, F)

\* One caller at a time, calling again and again with any request; every
\* API call may fail and the solver controller may write any phase at any
\* time.
Next ==
    \/ \E n \in SolverNames, phase \in Phases : EnvSolverPhase(n, phase)
    \/ Step(1, Requests, BOOLEAN)
    \/ Return(1)

Spec == Init /\ [][Next]_vars

\* The solver controller moving a Solver through its lifecycle.
NextPhases(status) ==
    IF status = NoStatus THEN {"Pending"}
    ELSE IF status = "Pending" THEN {"Running"}
    ELSE IF status = "Running" THEN {"Solved", "Failed", "Timed Out"}
    ELSE {}

EnvSolverLifecycle(n) ==
    /\ solvers[n] /= NoDoc
    /\ \E phase \in NextPhases(solvers[n].status) :
         solvers' = [solvers EXCEPT ![n].status = phase]
    /\ UNCHANGED <<call, reservations, eval>>

\* Two callers at the same time, each calling once with any Resource, on
\* an infrastructure that does not fail and a solver controller that
\* follows the lifecycle.
NextConc ==
    \/ \E n \in SolverNames : EnvSolverLifecycle(n)
    \/ \E s \in Sess : Step(s, Resources, {FALSE})

SpecConc == Init /\ [][NextConc]_vars

-----------------------------------------------------------------------------
(* The functions of common.py and the request builder, called on their own *)

\* The characters the quantity strings are drawn from: digits, the unit
\* letters, and what int() treats specially.
QuantityChars ==
    {"0", "1", " ", "+", "-", "_", "n", "m", "K", "M", "G", "i", "x"}

\* Every string of at most MaxSpecLen of these characters.
QuantityStrings ==
    UNION {[1..k -> QuantityChars] : k \in 0..MaxSpecLen}

\* The ephemeral_storage, persistent_storage and region of a Resource.
WithStorage(resource, storage, region) ==
    resource @@ [ephemeral_storage |-> storage,
                 persistent_storage |-> storage, region |-> region]

EvalResources ==
    { WithStorage(Resource(Str("r1"), cpu, memory, architecture, gpu),
                  storage, region) :
        cpu \in {None, <<>>, <<"1">>, <<"5", "0", "0", "m">>, <<"1", "x">>},
        memory \in {None, <<>>, <<"1", "G", "i">>,
                    <<"5", "1", "2", "M", "i">>, <<"1", "G">>},
        architecture \in {None, Str("amd64"), Str("arm64")},
        gpu \in {None, <<"0">>, <<"1">>, <<"x">>},
        storage \in {None, <<"1", "G", "i">>},
        region \in {None, Str("eu")} }

EvalFlavors ==
    { Flavor(Str("f"), K8SLICE, cpu, memory, architecture, gpu) :
        cpu \in {None, <<"1">>, <<"9", "0", "0", "m">>, <<"1", "x">>},
        memory \in {None, <<"1", "G", "i">>, <<"1", "0", "2", "4", "K", "i">>,
                    <<"1", "G">>},
        architecture \in {Str("amd64"), Str("arm64")},
        gpu \in {None, <<"0">>, <<"1">>, <<"x">>} }

\* Intent keys: a member name or something near one, behind the prefix or
\* something near it.
IntentNames ==
    { head \o tail :
        head \in { <<>>, IntentKeyPrefix,
                   SubSeq(IntentKeyPrefix, 1, 8),
                   SubSeq(IntentKeyPrefix, 9, 15),
                   SubSeq(IntentKeyPrefix, 1, 14),
                   <<"a", "-", "b", "-">>,
                   IntentKeyPrefix \o IntentKeyPrefix },
        tail \in { KnownIntent[i] : i \in 1..Len(KnownIntent) }
                 \cup { <<>>, <<"C", "P", "U">>, <<"c", "p">>,
                        <<"c", "p", "u", "x">>, <<"c", "p", "u", "-">>,
                        <<"c", "p", "u", "-", "c", "p", "u">> } }

\* The function fn about to be called.
Called(fn) == [fn |-> fn, pc |-> "called"]

InitEval ==
    /\ call = [s \in Sess |-> IdleCall]
    /\ solvers = [n \in SolverNames |-> NoDoc]
    /\ reservations = [n \in ReservationNames |-> NoDoc]
    /\ \/ \E spec \in QuantityStrings :
             eval = Called("_cpu_to_int") @@ [spec |-> spec]
       \/ \E spec \in QuantityStrings :
             eval = Called("_memory_to_int") @@ [spec |-> spec]
       \/ \E self \in EvalResources, flavor \in EvalFlavors :
             eval = Called("can_run_on")
                        @@ [self |-> self, flavor |-> flavor]
       \/ \E intent_name \in IntentNames :
             eval = Called("get_intent") @@ [intent_name |-> intent_name]
       \/ \E resource \in EvalResources :
             eval = Called("_resource_to_solver_request")
                        @@ [resource |-> resource]

\* The call has returned out, or raised the exception out names.
Evaluated(e, out) == [e EXCEPT !.pc = "done"] @@ [out |-> out]

Eval_cpu_to_int ==
    /\ eval.fn = "_cpu_to_int" /\ eval.pc = "called"
    /\ eval' = Evaluated(eval, _cpu_to_int(eval.spec))
    /\ UNCHANGED <<call, solvers, reservations>>

Eval_memory_to_int ==
    /\ eval.fn = "_memory_to_int" /\ eval.pc = "called"
    /\ eval' = Evaluated(eval, _memory_to_int(eval.spec))
    /\ UNCHANGED <<call, solvers, reservations>>

Eval_can_run_on ==
    /\ eval.fn = "can_run_on" /\ eval.pc = "called"
    /\ eval' = Evaluated(eval, can_run_on(eval.self, eval.flavor))
    /\ UNCHANGED <<call, solvers, reservations>>

Eval_get_intent ==
    /\ eval.fn = "get_intent" /\ eval.pc = "called"
    /\ eval' = Evaluated(eval, get_intent(eval.intent_name))
    /\ UNCHANGED <<call, solvers, reservations>>

Eval_resource_to_solver_request ==
    /\ eval.fn = "_resource_to_solver_request" /\ eval.pc = "called"
    /\ \E uuid \in Uuids :
         eval' = Evaluated(eval, _resource_to_solver_request(
                     eval.resource, FindRemoteIntentId(eval.resource), uuid))
    /\ UNCHANGED <<call, solvers, reservations>>

NextEval ==
    \/ Eval_cpu_to_int
    \/ Eval_memory_to_int
    \/ Eval_can_run_on
    \/ Eval_get_intent
    \/ Eval_resource_to_solver_request

\* One call of one function on every input of EvalCalls.
SpecEval == InitEval /\ [][NextEval]_vars

-----------------------------------------------------------------------------
(* Properties                                                              *)

IsResourceCall(c) == c.request.kind = "Resource"

\* The call got past SUBMIT.
PastSubmit(c) ==
    c.pc \in {"poll", "discover", "reserve"}
    \/ (c.pc = "returned" /\ IsResourceCall(c))

\* The Solver documents a caller with this request identifier created.
SolversOf(id) ==
    {n \in SolverNames : solvers[n] /= NoDoc /\ solvers[n].owner = id}

\* The Remote handle of the i-th candidate of call c: solver name,
\* candidate name and reservation name.
HandleOf(c, i) ==
    [kind |-> "Remote", id |-> c.solver_name,
     peering_candidate |-> c.peering_candidates[i].name,
     reservation |-> ReservationName(c.peering_candidates[i])]

\* The handles of the candidates from the i-th on whose Reservation the
\* control plane created, in discovery order.
RECURSIVE AcceptedHandles(_, _)
AcceptedHandles(c, i) ==
    IF i > Len(c.peering_candidates) THEN <<>>
    ELSE (IF i \in c.accepted THEN <<HandleOf(c, i)>> ELSE <<>>)
         \o AcceptedHandles(c, i + 1)

\* C1: a find_best_match call that starts when the Solver '<id>-solver' of
\* its request identifier is present creates no Solver document; when its
\* fetch of that document succeeds it issues no create at all and goes on
\* with the existing document; and no request identifier ever has two
\* Solver documents.
Thm_C1_IdempotentSubmit ==
    /\ \A s \in Sess :
         LET c == call[s]
         IN  c.presentAtCall =>
               /\ ~c.created
               /\ ("get_solver" \in c.ops \ c.faults =>
                     /\ c.pc /= "initiate_create"
                     /\ "create_solver" \notin c.ops)
               /\ (PastSubmit(c) =>
                     /\ c.solver_name = SolverName(c.request.id)
                     /\ solvers[c.solver_name] /= NoDoc)
    /\ \A id \in ReqIds : Cardinality(SolversOf(id)) <= 1

Wit_C1_SecondCallReuses ==
    \E s \in Sess :
        /\ call[s].presentAtCall
        /\ call[s].pc = "poll"
        /\ "create_solver" \notin call[s].ops
        /\ call[s].solver_name = SolverName(call[s].request.id)

\* C2: the poll loop sleeps at most SOLVER_TIMEOUT times, whatever the
\* status fetches answer.  The sleeps of a call inside the loop are the
\* fetches that consumed a tick plus those that did not.
Cex_C2_BoundedPolls ==
    \A s \in Sess :
        call[s].pc = "poll" =>
            call[s].counter + call[s].wasted <= SOLVER_TIMEOUT

\* C3: find_best_match called with a Resource never ends by raising the
\* ApiException of a control-plane call.
Cex_C3_NeverRaises ==
    \A s \in Sess :
        IsResourceCall(call[s]) => call[s].exc /= "ApiException"

\* C4: a call that saw the phase Solved, fetched a Discovery with n >= 1
\* candidates and had every Reservation created ends DONE and returns
\* exactly n Remote handles, one per candidate in order, each with the
\* solver name, the candidate's name and the name of its Reservation, which
\* the control plane holds.
Thm_C4_SuccessfulNegotiation ==
    \A s \in Sess :
        LET c == call[s]
            n == Len(c.seen.items)
        IN  ( /\ c.pc = "returned"
              /\ c.observed = "Solved"
              /\ c.seen /= NoDoc /\ c.seen.hasItems /\ n >= 1
              /\ c.accepted = 1..n )
            => /\ c.outcome = "DONE"
               /\ c.peering_candidates = c.seen.items
               /\ Len(c.matching_resources) = n
               /\ \A i \in 1..n :
                    /\ c.matching_resources[i] =
                         [kind |-> "Remote", id |-> c.solver_name,
                          peering_candidate |-> c.seen.items[i].name,
                          reservation |->
                              ReservationName(c.seen.items[i])]
                    /\ reservations[ReservationName(c.seen.items[i])]
                         /= NoDoc

Wit_C4_TwoReserved ==
    \E s \in Sess :
        /\ call[s].pc = "returned"
        /\ call[s].observed = "Solved"
        /\ call[s].outcome = "DONE"
        /\ Len(call[s].seen.items) = 2
        /\ call[s].accepted = {1, 2}
        /\ Len(call[s].matching_resources) = 2

\* C5: a status fetch that answers with the phase Failed or Timed Out ends
\* the session at once: ABORTED, with no remote match, the call returning
\* its local matches alone.
Thm_C5_ExplicitFailure ==
    [][\A s \in Sess :
         ( /\ call[s].pc = "poll"
           /\ call[s].counter < SOLVER_TIMEOUT
           /\ call'[s] /= call[s]
           /\ "get_status" \notin call'[s].faults
           /\ solvers[call[s].solver_name].status \in {"Failed", "Timed Out"} )
         => /\ call'[s].pc = "returned"
            /\ call'[s].outcome = "ABORTED"
            /\ call'[s].matching_resources = <<>>
            /\ call'[s].ret = call[s].local
            /\ call'[s].ops \cap {"get_discovery", "create_reservation"} = {}
      ]_vars

Wit_C5_TimedOutSeen ==
    \E s \in Sess :
        /\ call[s].pc = "returned"
        /\ call[s].observed = "Timed Out"
        /\ call[s].outcome = "ABORTED"
        /\ call[s].created

\* C6: a session that reaches RESERVE attempts a Reservation for every
\* discovered candidate, whatever the earlier attempts gave, and returns
\* exactly the handles of the candidates whose Reservation was created, in
\* discovery order.
Thm_C6_ReserveIndependent ==
    \A s \in Sess :
        LET c == call[s]
        IN  /\ (c.pc = "returned" /\ c.peering_candidates /= <<>>) =>
                 /\ c.outcome = "DONE"
                 /\ Len(c.results) = Len(c.peering_candidates)
                 /\ c.matching_resources = AcceptedHandles(c, 1)
            /\ (c.pc = "reserve") =>
                 Len(c.results) < Len(c.peering_candidates)

Wit_C6_FirstFailsSecondReserved ==
    \E s \in Sess :
        /\ call[s].outcome = "DONE"
        /\ Len(call[s].peering_candidates) = 2
        /\ call[s].accepted = {2}
        /\ Len(call[s].matching_resources) = 1

\* C7: of two calls with different request identifiers that overlap, each
\* returns what it returns alone: on this infrastructure, its local matches
\* and a handle for every candidate it discovered.
Cex_C7_NoInterference ==
    \A s \in Sess : \A o \in Sess \ {s} :
        LET c == call[s]
        IN  ( /\ c.pc = "returned" /\ c.outcome = "DONE" /\ c.overlapped
              /\ IsResourceCall(call[o])
              /\ call[o].request.id /= c.request.id )
            => c.ret = c.local \o
                   [i \in 1..Len(c.peering_candidates) |-> HandleOf(c, i)]

\* C8: for a Resource the flavours are listed before any call of the
\* negotiation, the negotiation runs whatever the local match gave, and the
\* call returns the local matches followed by the remote ones, unchanged.
Thm_C8_LocalThenRemote ==
    \A s \in Sess :
        LET c == call[s]
        IN  IsResourceCall(c) =>
              /\ (c.pc = "find_local" => c.ops = {})
              /\ (c.ops /= {} => "list_flavours" \in c.ops)
              /\ (c.pc = "returned" =>
                    /\ "get_solver" \in c.ops
                    /\ c.ret = c.local \o c.matching_resources
                    /\ \A i \in 1..Len(c.local) : c.ret[i].kind = "Local")

Wit_C8_LocalAndRemote ==
    \E s \in Sess :
        /\ call[s].pc = "returned"
        /\ Len(call[s].local) = 2
        /\ Len(call[s].matching_resources) = 2
        /\ Len(call[s].ret) = 4

\* C9: for an Intent find_best_match returns an empty sequence and makes no
\* control-plane call.
Thm_C9_IntentUnsupported ==
    \A s \in Sess :
        call[s].request.kind = "Intent" =>
            /\ call[s].pc = "returned"
            /\ call[s].ret = <<>>
            /\ call[s].ops = {}

Wit_C9_IntentReturned ==
    \E s \in Sess :
        /\ call[s].request.kind = "Intent"
        /\ call[s].pc = "returned"
        /\ \E n \in SolverNames : solvers[n] /= NoDoc

\* C10: when the flavours listing fails, the local match is empty and
\* raises nothing, the call goes on to the negotiation, and what it returns
\* are the matches of the negotiation.
Thm_C10_LocalUnreachable ==
    \A s \in Sess :
        LET c == call[s]
        IN  "list_flavours" \in c.faults =>
              /\ c.local = <<>>
              /\ c.pc \in {"initiate_get", "initiate_create", "poll",
                           "discover", "reserve", "returned", "raised"}
              /\ (c.pc = "raised" => "create_solver" \in c.ops)
              /\ (c.pc = "returned" =>
                    /\ "get_solver" \in c.ops
                    /\ c.ret = c.matching_resources)

Wit_C10_RemoteOnly ==
    \E s \in Sess :
        /\ "list_flavours" \in call[s].faults
        /\ call[s].pc = "returned"
        /\ Len(call[s].ret) = 1
        /\ call[s].ret[1].kind = "Remote"

\* The call of fn on its own has returned or raised.
EvalDone(fn) == eval.fn = fn /\ eval.pc = "done"

\* Every dimension the request constrains is satisfied by the flavor: the
\* CPU and the memory of both convert and the flavor's are not smaller, the
\* architecture is the requested one, the GPU count is not smaller.
Satisfies(r, f) ==
    /\ _cpu_to_int(r.cpu).exc = "none" /\ _cpu_to_int(f.cpu).exc = "none"
    /\ _cpu_to_int(f.cpu).val >= _cpu_to_int(r.cpu).val
    /\ _memory_to_int(r.memory).exc = "none"
    /\ _memory_to_int(f.memory).exc = "none"
    /\ _memory_to_int(f.memory).val >= _memory_to_int(r.memory).val
    /\ (r.architecture /= None => r.architecture = f.architecture)
    /\ (r.gpu /= None =>
          /\ PyInt(r.gpu).exc = "none" /\ PyInt(f.gpu).exc = "none"
          /\ PyInt(f.gpu).val >= PyInt(r.gpu).val)

\* The CPU or the memory of the request or of the flavor is absent.
SomeAbsent(r, f) ==
    r.cpu = None \/ f.cpu = None \/ r.memory = None \/ f.memory = None

\* Every quantity that is present converts, and so do both GPU counts when
\* the request constrains the GPU.
WellFormed(r, f) ==
    /\ r.cpu /= None => _cpu_to_int(r.cpu).exc = "none"
    /\ f.cpu /= None => _cpu_to_int(f.cpu).exc = "none"
    /\ r.memory /= None => _memory_to_int(r.memory).exc = "none"
    /\ f.memory /= None => _memory_to_int(f.memory).exc = "none"
    /\ r.gpu /= None =>
         PyInt(r.gpu).exc = "none" /\ PyInt(f.gpu).exc = "none"

\* The request with its storage and region fields cleared.
NoStorage(r) ==
    [r EXCEPT !.ephemeral_storage = None, !.persistent_storage = None,
              !.region = None]

LocalHandlesOf(request, listing) ==
    LET fitting == SelectSeq(listing,
                       LAMBDA f : /\ f.type = K8SLICE
                                  /\ can_run_on(request, f) = PyTrue)
    IN  [i \in 1..Len(fitting) |->
           [kind |-> "Local", id |-> fitting[i].id, flavor |-> fitting[i]]]

\* C12: the local match of a call is exactly the listed flavours of type
\* K8SLICE on which the request can run, each wrapped as a Local handle
\* with the flavour's id, in listing order; no flavour of another type is
\* among them.
Thm_C12_LocalMatch ==
    \A s \in Sess :
        LET c == call[s]
        IN  (IsResourceCall(c) /\ c.pc \notin {"find_local", "raised"}) =>
              /\ c.local = LocalHandlesOf(c.request, c.listed)
              /\ \A i \in 1..Len(c.local) :
                    /\ c.local[i].kind = "Local"
                    /\ c.local[i].flavor.type = K8SLICE
                    /\ c.local[i].id = c.local[i].flavor.id
              /\ (c.pc = "returned" =>
                    SubSeq(c.ret, 1, Len(c.local)) = c.local)

Wit_C12_OtherTypeSkipped ==
    \E s \in Sess :
        /\ call[s].pc = "returned"
        /\ Len(call[s].listed) = 3
        /\ Len(call[s].local) = 1
        /\ call[s].local[1].id = Str("f3")
        /\ \E i \in 1..Len(call[s].listed) :
              /\ call[s].listed[i].type /= K8SLICE
              /\ can_run_on(call[s].request, call[s].listed[i]) = PyTrue

\* C13: after the phase Solved, a Discovery that is missing, whose fetch
\* fails, that has no candidate list or whose candidate list is empty ends
\* the session ABORTED: the call returns its local matches alone, raises
\* nothing and attempts no Reservation.
Thm_C13_DiscoverAborts ==
    \A s \in Sess :
        LET c == call[s]
        IN  ( /\ "get_discovery" \in c.ops
              /\ (\/ c.seen = NoDoc
                  \/ ~c.seen.hasItems
                  \/ Len(c.seen.items) = 0) )
            => /\ c.observed = "Solved"
               /\ c.pc = "returned"
               /\ c.exc = "none"
               /\ c.outcome = "ABORTED"
               /\ c.matching_resources = <<>>
               /\ c.ret = c.local
               /\ "create_reservation" \notin c.ops

Wit_C13_EmptyCandidateList ==
    \E s \in Sess :
        /\ "get_discovery" \in call[s].ops \ call[s].faults
        /\ call[s].seen = DiscoveryDoc(TRUE, <<>>)
        /\ call[s].pc = "returned"
        /\ Len(call[s].ret) = 2

\* C14: every Reservation document a call creates has reserve = true and
\* purchase = false, the name of the call's Solver as solverID, the
\* configured identity as buyer, the owner of the candidate's flavour as
\* seller and the candidate's name as peeringCandidate.name.
Thm_C14_ReservationDocument ==
    [][\A s \in Sess : \A n \in ReservationNames :
         ( /\ call[s].pc = "reserve"
           /\ call'[s] /= call[s]
           /\ reservations'[n] /= reservations[n] )
         => LET c == call[s]
                candidate == c.peering_candidates[Len(c.results) + 1]
                doc == reservations'[n]
            IN  /\ reservations[n] = NoDoc
                /\ doc.kind = "Reservation"
                /\ doc.reserve = TRUE
                /\ doc.purchase = FALSE
                /\ doc.solverID = c.solver_name
                /\ solvers[c.solver_name] /= NoDoc
                /\ doc.buyer = Identity
                /\ doc.seller = candidate.owner
                /\ doc.peeringCandidate = candidate.name
                /\ n = ReservationName(candidate)
      ]_vars

Wit_C14_ReservationOfSecondCandidate ==
    \E s \in Sess :
        /\ call[s].pc = "returned"
        /\ 2 \in call[s].accepted
        /\ reservations[ReservationName(CandB)] /= NoDoc
        /\ reservations[ReservationName(CandB)].seller = CandB.owner
        /\ reservations[ReservationName(CandB)].solverID
             = call[s].solver_name

\* C15: the selector of the Solver document built for a request has
\* minCpu = request.cpu or "0n", minMemory = request.memory or "1Ki",
\* minGpu present iff request.gpu is set and then equal to it, and
\* architecture = request.architecture, or "amd64" when that is not set;
\* nothing else of the request enters it.
Thm_C15_Selector ==
    EvalDone("_resource_to_solver_request") =>
        LET r == eval.resource
            selector == eval.out.selector
            range == selector.rangeSelector
        IN  /\ range.minCpu =
                 (IF r.cpu \in {None, <<>>} THEN <<"0", "n">> ELSE r.cpu)
            /\ range.minMemory =
                 (IF r.memory \in {None, <<>>} THEN <<"1", "K", "i">>
                  ELSE r.memory)
            /\ ("minGpu" \in DOMAIN range <=> r.gpu /= None)
            /\ (r.gpu /= None => range.minGpu = r.gpu)
            /\ DOMAIN range \subseteq {"minCpu", "minMemory", "minGpu"}
            /\ selector.architecture =
                 (IF r.architecture = None THEN Str("amd64")
                  ELSE r.architecture)
            /\ selector.type = "k8s-fluidos"
            /\ eval.out.kind = "Solver"

Wit_C15_DefaultsAndGpu ==
    /\ EvalDone("_resource_to_solver_request")
    /\ eval.resource.cpu = None
    /\ eval.resource.memory /= None
    /\ eval.resource.architecture = None
    /\ eval.resource.gpu = <<"1">>
    /\ eval.out.selector.rangeSelector.minCpu = <<"0", "n">>
    /\ eval.out.selector.rangeSelector.minGpu = <<"1">>

\* A non-empty string of decimal digits.
IsDigitString(d) == Len(d) > 0 /\ \A i \in 1..Len(d) : d[i] \in Digits

\* C16: for a string of digits d, _cpu_to_int(d + "n") = int(d),
\* _cpu_to_int(d + "m") = int(d) * 1000 and _cpu_to_int(d) = int(d) *
\* 1000000; a string that ends in any other character raises instead of
\* returning a magnitude.
Cex_C16_CpuNormalisation ==
    EvalDone("_cpu_to_int") =>
        LET spec == eval.spec
            last == spec[Len(spec)]
            d    == DropLast(spec, 1)
        IN  /\ (Len(spec) > 0 /\ last = "n" /\ IsDigitString(d) =>
                  eval.out = Ok(DigitsToInt(d)))
            /\ (Len(spec) > 0 /\ last = "m" /\ IsDigitString(d) =>
                  eval.out = Ok(DigitsToInt(d) * 1000))
            /\ (IsDigitString(spec) =>
                  eval.out = Ok(DigitsToInt(spec) * 1000000))
            /\ (Len(spec) > 0 /\ last \notin Digits \cup {"n", "m"} =>
                  eval.out.exc /= "none")

\* C17: for a string of digits d, _memory_to_int gives int(d) for d + "Ki",
\* 1024 * int(d) for d + "Mi" and 1024 * 1024 * int(d) for d + "Gi"; a
\* string with any other suffix, or with none, raises instead of returning
\* a magnitude.
Thm_C17_MemoryNormalisation ==
    EvalDone("_memory_to_int") =>
        LET spec == eval.spec
            unit == TakeLast(spec, 2)
            d    == DropLast(spec, 2)
            known == Len(spec) >= 2
                     /\ unit \in {<<"K", "i">>, <<"M", "i">>, <<"G", "i">>}
        IN  /\ (known /\ unit = <<"K", "i">> /\ IsDigitString(d) =>
                  eval.out = Ok(DigitsToInt(d)))
            /\ (known /\ unit = <<"M", "i">> /\ IsDigitString(d) =>
                  eval.out = Ok(1024 * DigitsToInt(d)))
            /\ (known /\ unit = <<"G", "i">> /\ IsDigitString(d) =>
                  eval.out = Ok(1024 * 1024 * DigitsToInt(d)))
            /\ (~known => eval.out.exc /= "none")

Wit_C17_OneGi ==
    /\ EvalDone("_memory_to_int")
    /\ eval.spec = <<"1", "G", "i">>
    /\ eval.out = Ok(1048576)

\* C18: get_intent returns the member k for exactly the string
\* 'fluidos-intent-<k.name>', and raises ValueError for every other string,
\* a bare member name included.
Cex_C18_GetIntent ==
    EvalDone("get_intent") =>
        IF \E i \in 1..Len(KnownIntent) :
               eval.intent_name = to_intent_key(KnownIntent[i])
        THEN \E i \in 1..Len(KnownIntent) :
               /\ eval.intent_name = to_intent_key(KnownIntent[i])
               /\ eval.out = Member(KnownIntent[i])
        ELSE eval.out = Raises(ValueError)

\* C19: every Solver and every Reservation document is adopted by the
\* caller object before its create call: the body a call is about to
\* create carries the owner reference, and no document of the control
\* plane is without one.
Thm_C19_AdoptedBeforeCreate ==
    /\ \A s \in Sess :
          call[s].pc = "initiate_create" =>
              /\ call[s].body.kind = "Solver"
              /\ call[s].body.owner = call[s].request.id
    /\ \A n \in SolverNames :
          solvers[n] /= NoDoc =>
              /\ solvers[n].owner \in ReqIds
              /\ n = SolverName(solvers[n].owner)
    /\ \A n \in ReservationNames :
          reservations[n] /= NoDoc => reservations[n].owner \in ReqIds

Wit_C19_BothKindsAdopted ==
    /\ solvers[SolverName(Str("r2"))] /= NoDoc
    /\ solvers[SolverName(Str("r2"))].owner = Str("r2")
    /\ \E n \in ReservationNames :
          /\ reservations[n] /= NoDoc
          /\ reservations[n].owner = Str("r2")

\* C20: of two overlapping calls with the same request identifier neither
\* raises, both get past SUBMIT with the same solver name, and the
\* identifier never has two Solver documents.
Cex_C20_ConcurrentSubmit ==
    \A s \in Sess : \A o \in Sess \ {s} :
        ( /\ IsResourceCall(call[s]) /\ IsResourceCall(call[o])
          /\ call[s].request.id = call[o].request.id
          /\ call[s].overlapped /\ call[o].overlapped )
        => /\ call[s].pc /= "raised"
           /\ (PastSubmit(call[s]) /\ PastSubmit(call[o]) =>
                 call[s].solver_name = call[o].solver_name)
           /\ Cardinality(SolversOf(call[s].request.id)) <= 1

\* Candidate i of call c was reserved for the call's Solver by an earlier
\* call: its Reservation names that Solver and this call did not create it.
ReservedBefore(c, i) ==
    LET n == ReservationName(c.peering_candidates[i])
    IN  /\ i \notin c.accepted
        /\ reservations[n] /= NoDoc
        /\ reservations[n].solverID = c.solver_name

\* C21: a call that finds the Solver of its request identifier present and
\* Solved, and no call of which fails, returns a Remote handle for every
\* candidate of the Discovery that an earlier call with that identifier
\* reserved and returned.
Cex_C21_ResubmissionSameResult ==
    \A s \in Sess :
        LET c == call[s]
        IN  ( /\ c.pc = "returned" /\ c.outcome = "DONE"
              /\ c.presentAtCall
              /\ c.faults = {} )
            => \A i \in 1..Len(c.peering_candidates) :
                  ReservedBefore(c, i) =>
                      \E j \in 1..Len(c.ret) : c.ret[j] = HandleOf(c, i)

\* The status fetch of this step of caller s was answered, with phase.
FetchAnswered(s, phase) ==
    /\ call[s].pc = "poll"
    /\ call[s].counter < SOLVER_TIMEOUT
    /\ call'[s] /= call[s]
    /\ "get_status" \notin call'[s].faults
    /\ solvers[call[s].solver_name] /= NoDoc
    /\ solvers[call[s].solver_name].status = phase

\* C22: a status fetch answered Pending or Running consumes exactly one
\* tick and keeps the session polling; with SOLVER_TIMEOUT ticks consumed
\* the session makes no further fetch, its next step ends it ABORTED with
\* no remote match; a fetch answered Solved while a tick is left moves the
\* session to DISCOVER.
Thm_C22_TickBudget ==
    [][\A s \in Sess :
         /\ (FetchAnswered(s, "Pending") \/ FetchAnswered(s, "Running")) =>
               /\ call'[s].pc = "poll"
               /\ call'[s].counter = call[s].counter + 1
               /\ call'[s].wasted = call[s].wasted
         /\ ( /\ call[s].pc = "poll"
              /\ call[s].counter >= SOLVER_TIMEOUT
              /\ call'[s] /= call[s] ) =>
               /\ call[s].counter = SOLVER_TIMEOUT
               /\ call'[s].pc = "returned"
               /\ call'[s].outcome = "ABORTED"
               /\ call'[s].matching_resources = <<>>
               /\ call'[s].ret = call[s].local
               /\ call'[s].ops = call[s].ops
               /\ call'[s].faults = call[s].faults
         /\ FetchAnswered(s, "Solved") =>
               /\ call'[s].pc = "discover"
               /\ call'[s].observed = "Solved"
      ]_vars

Wit_C22_BudgetSpent ==
    \E s \in Sess :
        /\ call[s].pc = "poll"
        /\ call[s].counter = SOLVER_TIMEOUT
        /\ call[s].wasted = 0
        /\ solvers[call[s].solver_name].status = "Solved"

\* C23: a status fetch that fails, or that answers a Solver without a
\* status, ends the session at once, whatever is left of the tick budget:
\* ABORTED, the call returning its local matches alone, with no Discovery
\* fetch and no Reservation create, and no further step of the call.
Thm_C23_StatusUnavailable ==
    [][\A s \in Sess :
         ( /\ call[s].pc = "poll"
           /\ call[s].counter < SOLVER_TIMEOUT
           /\ call'[s] /= call[s]
           /\ \/ "get_status" \in call'[s].faults
              \/ solvers[call[s].solver_name] = NoDoc
              \/ solvers[call[s].solver_name].status = NoStatus )
         => /\ call'[s].pc = "returned"
            /\ call'[s].exc = "none"
            /\ call'[s].outcome = "ABORTED"
            /\ call'[s].matching_resources = <<>>
            /\ call'[s].ret = call[s].local
            /\ call'[s].ops \cap {"get_discovery", "create_reservation"} = {}
            /\ reservations' = reservations
      ]_vars

Wit_C23_FetchFailedEarly ==
    \E s \in Sess :
        /\ call[s].pc = "returned"
        /\ "get_status" \in call[s].faults
        /\ call[s].observed = "None"
        /\ call[s].outcome = "ABORTED"
        /\ \E n \in SolverNames :
              solvers[n] /= NoDoc /\ solvers[n].status = "Solved"

\* C24: a call attempts the create of a Reservation only after a status
\* fetch of it observed the phase Solved and its Discovery fetch answered a
\* non-empty candidate list; a call that ended ABORTED has attempted and
\* created none.
Thm_C24_ProtocolOrder ==
    \A s \in Sess :
        LET c == call[s]
        IN  /\ (c.pc = "reserve" \/ "create_reservation" \in c.ops
                  \/ c.accepted /= {}) =>
                  /\ "get_status" \in c.ops
                  /\ c.observed = "Solved"
                  /\ "get_discovery" \in c.ops \ c.faults
                  /\ c.seen /= NoDoc
                  /\ c.seen.hasItems
                  /\ Len(c.seen.items) >= 1
                  /\ c.peering_candidates = c.seen.items
            /\ (c.pc = "discover" =>
                  /\ c.observed = "Solved"
                  /\ "create_reservation" \notin c.ops)
            /\ (c.outcome = "ABORTED" =>
                  /\ "create_reservation" \notin c.ops
                  /\ c.accepted = {}
                  /\ c.results = <<>>)

Wit_C24_AbortedAfterSolved ==
    \E s \in Sess :
        /\ call[s].outcome = "ABORTED"
        /\ call[s].observed = "Solved"
        /\ call[s].seen = DiscoveryDoc(FALSE, <<>>)
        /\ \A n \in ReservationNames : reservations[n] = NoDoc

\* C25: a step of a call never changes or removes a Solver or a
\* Reservation document that exists; it creates at most one document: the
\* Solver, once per call, or the Reservation of the candidate the call is
\* at, once per candidate; and the Solver of a call that ended ABORTED is
\* present.
Thm_C25_WriteSet ==
    [][\A s \in Sess :
         /\ call'[s] /= call[s] =>
               /\ \A n \in SolverNames :
                     solvers[n] /= NoDoc => solvers'[n] = solvers[n]
               /\ \A n \in ReservationNames :
                     reservations[n] /= NoDoc =>
                         reservations'[n] = reservations[n]
               /\ \A n \in SolverNames :
                     solvers'[n] /= solvers[n] =>
                         /\ call[s].pc = "initiate_create"
                         /\ ~call[s].created /\ call'[s].created
                         /\ n = call'[s].solver_name
                         /\ reservations' = reservations
                         /\ \A m \in SolverNames \ {n} :
                               solvers'[m] = solvers[m]
               /\ \A n \in ReservationNames :
                     reservations'[n] /= reservations[n] =>
                         /\ call[s].pc = "reserve"
                         /\ n = ReservationName(call[s].peering_candidates[
                                    Len(call[s].results) + 1])
                         /\ Len(call'[s].results) = Len(call[s].results) + 1
                         /\ solvers' = solvers
                         /\ \A m \in ReservationNames \ {n} :
                               reservations'[m] = reservations[m]
         /\ call'[s].outcome = "ABORTED" =>
               /\ solvers'[call'[s].solver_name] /= NoDoc
               /\ call[s].pc = "poll" =>
                     solvers'[call'[s].solver_name]
                         = solvers[call[s].solver_name]
      ]_vars

Wit_C25_AbortedSolverKept ==
    \E s \in Sess :
        /\ call[s].outcome = "ABORTED"
        /\ call[s].created
        /\ call[s].observed = "Failed"
        /\ solvers[call[s].solver_name].status = "Failed"
        /\ \E n \in ReservationNames : reservations[n] /= NoDoc

\* C26: a call that got to SUBMIT while the Solver of its request identifier
\* was present, and that saw no phase of it other than Failed or Timed Out,
\* which the Solver still has, has ended by returning, has adopted that
\* Solver, has created none and returns the local matches only, with no
\* Reservation attempted.
Cex_C26_FailedSolveSticky ==
    \A s \in Sess :
        LET c == call[s] IN
        (/\ IsResourceCall(c)
         /\ c.pc \in {"returned", "raised"}
         /\ "get_solver" \in c.ops
         /\ c.presentAtCall
         /\ solvers[SolverName(c.request.id)].status
                \in {"Failed", "Timed Out"}
         /\ c.observed \in {"none", "None", "Failed", "Timed Out"})
        => /\ c.pc = "returned"
           /\ c.solver_name = SolverName(c.request.id)
           /\ ~c.created
           /\ c.matching_resources = <<>>
           /\ c.ret = c.local
           /\ "create_reservation" \notin c.ops

\* The errors of a call that breaks the contract: a request of no supported
\* type, and what int() raises on a quantity.
ContractErrors == {ValueError, IndexError, TypeError}

\* C27: a call that raised a contract error made no control-plane call but
\* the listing of the local flavours, created no Solver and had no
\* Reservation accepted; and the step that raises it leaves every Solver and
\* Reservation document as it was.
Thm_C27_ContractErrorBeforeSubmit ==
    [][\A s \in Sess :
         (call'[s].exc \in ContractErrors /\ call'[s] /= call[s]) =>
            /\ call[s].pc \in {"idle", "find_local"}
            /\ call'[s].pc = "raised"
            /\ call'[s].ops \subseteq {"list_flavours"}
            /\ ~call'[s].created
            /\ call'[s].accepted = {}
            /\ call'[s].solver_name = None
            /\ solvers' = solvers
            /\ reservations' = reservations
      ]_vars

Wit_C27_MalformedFlavourListed ==
    \E s \in Sess :
        /\ call[s].pc = "raised"
        /\ call[s].exc = ValueError
        /\ call[s].request \in Resources
        /\ call[s].ops = {"list_flavours"}
        /\ \A n \in SolverNames : solvers[n] = NoDoc

Wit_C27_Aux_MalformedRequest ==
    \E s \in Sess :
        /\ call[s].pc = "raised"
        /\ call[s].exc = ValueError
        /\ call[s].request = MalformedResource

Wit_C27_Aux_Unsupported ==
    \E s \in Sess :
        /\ call[s].pc = "raised"
        /\ call[s].exc = ValueError
        /\ call[s].request.kind = "str"
        /\ call[s].ops = {}

====
